---- MODULE Spec2Model ----
(***************************************************************************)
(* timekeeper-rs: the date-resolution and relocation pipeline of           *)
(* src/src/main.rs, src/src/metadata.rs, src/src/exiftool.rs and           *)
(* src/src/stats.rs, as a state machine.  One rayon job per directory      *)
(* entry; every filesystem call, every read of the termination flag and    *)
(* every counter update that another job can observe is a step.            *)
(***************************************************************************)
EXTENDS Integers, Sequences, FiniteSets, TLC

(* ------------------------------ bounds -------------------------------- *)

\* regular files in the source tree, at most
NumEntries == 2
\* size of the rayon pool in a concurrent run
MaxThreads == 2
\* files already present in a destination folder before the run
MaxPre == 1
\* byte length of every media file; a partial copy is one byte shorter
FileSize == 1
\* filesystem calls that fail with an I/O error in one run
MaxFaults == 1

(* --------------------------- paths and dates --------------------------- *)

\* args.destination
dest_base == <<"dest">>
\* a folder of the source tree that is no destination folder
inbox == <<"inbox">>

Date1 == [year |-> 2023, month |-> 5]
Date2 == [year |-> 2021, month |-> 1]
Dates == {Date1, Date2}

\* datetime.format("%B")
MonthName(m) ==
    <<"January", "February", "March", "April", "May", "June", "July",
      "August", "September", "October", "November", "December">>[m]

\* dest_base.join(datetime.year().to_string()).join(&month_name)
DestDir(date) == dest_base \o <<ToString(date.year), MonthName(date.month)>>

\* a file path: its folder, its stem (the name and the suffixes appended to
\* it, in order) and its extension
MkPath(dir, stem, ext) == [dir |-> dir, stem |-> stem, ext |-> ext]
NoPath == MkPath(<<>>, <<>>, "")

\* dest_dir.join(source_path.file_name())
JoinFileName(dir, source) == MkPath(dir, source.stem, source.ext)

\* str::to_lowercase on the extensions that occur
ToLowercase(s) ==
    CASE s = "JPG" -> "jpg"
      [] s = "MOV" -> "mov"
      [] OTHER -> s

SUPPORTED_EXTENSIONS ==
    {"jpg", "jpeg", "png", "tiff", "tif", "raw", "cr2", "nef", "arw", "dng",
     "mp4", "mov", "avi", "mkv", "wmv", "m4v", "3gp", "webm", "webp", "gif"}

is_media_file(p) ==
    IF p.ext = "" THEN FALSE ELSE ToLowercase(p.ext) \in SUPPORTED_EXTENSIONS

(* ------------------------- the metadata tool --------------------------- *)

\* what one exiftool call for one field gives: the command failed, printed
\* nothing, printed text no layout parses, or printed a date
TagFail == [kind |-> "fail", date |-> Date1]
TagEmpty == [kind |-> "empty", date |-> Date1]
TagBad == [kind |-> "bad", date |-> Date1]
TagDate(d) == [kind |-> "date", date |-> d]

\* the outputs for DateTimeOriginal, CreateDate, DateTime, FileModifyDate
\* of a file that carries no date
NoTags == <<TagEmpty, TagFail, TagBad, TagEmpty>>

NoDate == [year |-> 0, month |-> 0]

RECURSIVE ExtractFrom(_, _)
ExtractFrom(tags, i) ==
    IF i > Len(tags) THEN NoDate
    ELSE IF tags[i].kind = "date" THEN tags[i].date
    ELSE ExtractFrom(tags, i + 1)

\* an extract_datetime that asks for DateTimeOriginal only
FirstFieldOnly(tags) == IF tags[1].kind = "date" THEN tags[1].date ELSE NoDate

\* the first field, in the fixed order, whose trimmed output parses
extract_datetime(tags) == ExtractFrom(tags, 1)

(* ------------------------------ state ---------------------------------- *)

VARIABLES
    dry_run,          \* args.dry_run
    exiftool_found,   \* whether get_exiftool_path() finds the tool
    single_file,      \* whether args.source is a file, not a directory
    threads,          \* size of the rayon pool
    entries,          \* the walked regular files: path, tag outputs, mtime
    fs,               \* the files: path -> [id, len]
    dirs,             \* the folders that exist
    terminate_flag,   \* the AtomicBool the Ctrl+C handler sets
    stats,            \* Stats
    phase,            \* where main is
    w,                \* each entry's job: position and locals
    run,              \* 1, or 2 for the invocation after a dry run
    dry_out,          \* what the dry run printed, kept for the second run
    dry_order,        \* the order in which the dry run took the entries
    order,            \* the candidates in the order the pool took them
    faults            \* I/O errors the filesystem has returned so far

vars == <<dry_run, exiftool_found, single_file, threads, entries, fs, dirs, terminate_flag,
          stats, phase, w, run, dry_out, dry_order, order, faults>>

config == <<exiftool_found, single_file, threads, entries>>

\* the regular files the walk of the source tree finds
Entries == DOMAIN entries

(* ---------------------------- filesystem ------------------------------- *)

PathExists(f, p) == p \in DOMAIN f
WriteFile(f, p, c) == [q \in DOMAIN f \cup {p} |-> IF q = p THEN c ELSE f[q]]
RemoveFile(f, p) == [q \in DOMAIN f \ {p} |-> f[q]]

\* the content of entry e's file
Content(e) == [id |-> e, len |-> FileSize]
\* a file that is no entry of this run
OtherContent == [id |-> 0, len |-> FileSize]


(* ------------------------------- Init ---------------------------------- *)

\* where a walked file can be
SourceSlots ==
    << MkPath(inbox, <<"foo">>, "jpg"),
       MkPath(DestDir(Date2), <<"foo">>, "jpg"),
       MkPath(inbox, <<"notes">>, "txt") >>

SlotOf(p) == CHOOSE i \in 1..Len(SourceSlots) : SourceSlots[i] = p

\* what the tool prints for a file, and the file's modification time
EntryProfiles ==
    { [tags |-> <<TagDate(Date1), TagEmpty, TagEmpty, TagDate(Date2)>>, mtime |-> Date2],
      [tags |-> <<TagEmpty, TagFail, TagBad, TagDate(Date2)>>, mtime |-> Date2],
      [tags |-> NoTags, mtime |-> Date1],
      [tags |-> NoTags, mtime |-> Date2] }

EntryRecords ==
    { [path |-> SourceSlots[i], tags |-> pr.tags, mtime |-> pr.mtime] :
        i \in 1..Len(SourceSlots), pr \in EntryProfiles }

\* format!("{}_{}.{}", file_stem, counter, extension) joined to the parent;
\* counter 0 stands for the original path
Candidate(p, counter) ==
    IF counter = 0 THEN p
    ELSE MkPath(p.dir, Append(p.stem, ToString(counter)), p.ext)

\* the j-th file already present in the folder of Date1
PrePath(j) == Candidate(MkPath(DestDir(Date1), <<"foo">>, "jpg"), j)

InitialFs(ents, n) ==
    [p \in {ents[e].path : e \in Entries} \cup {PrePath(j) : j \in 0..(n - 1)} |->
        IF \E e \in Entries : ents[e].path = p
        THEN Content(CHOOSE e \in Entries : ents[e].path = p)
        ELSE OtherContent]

Stats_new ==
    [total |-> 0, processed |-> 0, exif_count |-> 0, fallback_count |-> 0,
     skipped |-> 0, errors |-> 0]

QueuedJob ==
    [pc |-> "queued", mode |-> "none", dest_dir |-> <<>>, counter |-> 0,
     unique_dest_path |-> NoPath, out |-> <<>>, result |-> "none"]

InitCommon ==
    /\ dry_run \in BOOLEAN
    /\ exiftool_found \in BOOLEAN
    /\ entries \in UNION {[1..n -> EntryRecords] : n \in 1..NumEntries}
    /\ \A e1, e2 \in Entries :
          e1 < e2 => SlotOf(entries[e1].path) < SlotOf(entries[e2].path)
    /\ \A e \in Entries :
          /\ (~exiftool_found \/ ~is_media_file(entries[e].path))
                => entries[e].tags = NoTags
          /\ ~is_media_file(entries[e].path) => entries[e].mtime = Date1
    /\ \E n \in 0..MaxPre : fs = InitialFs(entries, n)
    /\ dirs = {p.dir : p \in DOMAIN fs} \cup {inbox}
    /\ terminate_flag = FALSE
    /\ stats = Stats_new
    /\ phase = "Idle"
    /\ w = [e \in Entries |-> QueuedJob]
    /\ run = 1
    /\ dry_out = [e \in Entries |-> <<>>]
    /\ dry_order = <<>>
    /\ order = <<>>
    /\ faults = 0

\* a run on a directory, with a pool of MaxThreads threads
Init == InitCommon /\ threads = MaxThreads /\ single_file = FALSE

(* ------------------------------- main ---------------------------------- *)

MediaEntries == {e \in Entries : is_media_file(entries[e].path)}

\* the results a filesystem call can have: Ok, or an I/O error while the
\* run's budget of errors lasts
IoResults == {ok \in BOOLEAN : ok \/ faults < MaxFaults}
Counted(ok) == faults' = IF ok THEN faults ELSE faults + 1

\* a job that has returned
Returned(j, result) == [j EXCEPT !.pc = "done", !.result = result]

\* count_media_files: one walk, total += 1 per media file; `entry?` returns
\* the walk's first error, which process_path and main pass on with `?`
CountMediaFiles ==
    /\ phase = "Idle"
    /\ ~single_file
    /\ \E ok \in IoResults :
          /\ IF ok
             THEN /\ stats' = [stats EXCEPT !.total = @ + Cardinality(MediaEntries)]
                  /\ phase' = "Counted"
             ELSE /\ \E n \in 0..Cardinality(MediaEntries) :
                        stats' = [stats EXCEPT !.total = @ + n]
                  /\ phase' = "Failed"
          /\ Counted(ok)
    /\ UNCHANGED <<dry_run, config, fs, dirs, terminate_flag, w, run, dry_out, dry_order, order>>

\* the sets of files the second walk can fail to read
Unwalked == {lost \in SUBSET Entries : faults + Cardinality(lost) <= MaxFaults}

\* process_directory: the second walk collects every regular file it can
\* read (filter_map(Result::ok) drops the walk's errors) and stores their
\* number in total
CollectEntries ==
    /\ phase = "Counted"
    /\ \E lost \in Unwalked :
          /\ stats' = [stats EXCEPT !.total = Cardinality(Entries \ lost)]
          /\ w' = [e \in Entries |->
                     IF e \in lost THEN Returned(w[e], "unwalked") ELSE w[e]]
          /\ faults' = faults + Cardinality(lost)
    /\ phase' = "Dispatching"
    /\ UNCHANGED <<dry_run, config, fs, dirs, terminate_flag, run, dry_out, dry_order, order>>

\* the Ctrl+C handler
Interrupt ==
    /\ phase \notin {"Done", "Failed"}
    /\ ~terminate_flag
    /\ terminate_flag' = TRUE
    /\ UNCHANGED <<dry_run, config, fs, dirs, stats, phase, w, run, dry_out, dry_order, order, faults>>

AllJobsReturned == \A e \in Entries : w[e].pc = "done"

\* par_iter().for_each returns when every job has returned; main prints
\* the summary
Join ==
    /\ phase = "Dispatching"
    /\ AllJobsReturned
    /\ phase' = "Done"
    /\ UNCHANGED <<dry_run, config, fs, dirs, terminate_flag, stats, w, run, dry_out, dry_order, order, faults>>

(* ------------------------------ one job -------------------------------- *)

Running == {e \in Entries : w[e].pc \notin {"queued", "done"}}

\* the check at the head of the for_each closure
DirectoryCheckStops(flag) == flag

\* a process_single_file without its check of the flag
NoSingleFileCheck(flag) == FALSE

\* the check at the head of process_single_file
SingleFileCheckStops(flag) == flag

\* a pool thread takes an entry: the closure's check, then the classifier
StartEntry(e) ==
    /\ phase = "Dispatching"
    /\ w[e].pc = "queued"
    /\ Cardinality(Running) < threads
    /\ w' = [w EXCEPT ![e] =
                IF DirectoryCheckStops(terminate_flag) THEN Returned(@, "abandoned")
                ELSE IF ~is_media_file(entries[e].path) THEN Returned(@, "ignored")
                ELSE [@ EXCEPT !.pc = "entered"]]
    /\ order' = IF w'[e].pc = "entered" THEN Append(order, e) ELSE order
    /\ UNCHANGED <<dry_run, config, fs, dirs, terminate_flag, stats, phase, run, dry_out, dry_order, faults>>

\* the job once a date gave dest_dir: ready to probe dest_dir/file_name
Planning(j, mode, dir) ==
    [j EXCEPT !.pc = "probe", !.mode = mode, !.dest_dir = dir, !.counter = 0,
              !.unique_dest_path = NoPath]

\* a process_single_file that returns the error of get_exiftool_path
LookupErrJob(e, j, readable) == Returned(j, "error")

\* process_file_with_fallback up to get_unique_file_path: the date is the
\* modification time, unless fs::metadata fails
FallbackJob(e, j, readable) ==
    IF readable THEN Planning(j, "fallback", DestDir(entries[e].mtime))
    ELSE Returned(j, "error")

\* process_single_file on Err of process_with_exiftool: the fallback runs;
\* on Err of the fallback: the error goes to the caller, which counts it
ErrJob(e, readable) ==
    IF w[e].mode = "exif" THEN FallbackJob(e, w[e], readable)
    ELSE Returned(w[e], "error")

\* an error arm that leaves the counter alone
ErrorsUncounted(n) == n

ErrorsAfter(n) == n + 1

\* what the caller of process_single_file does with its Err: the for_each
\* closure counts it; process_path returns it to main, uncounted
CallerErrStats(s) ==
    IF single_file THEN s ELSE [s EXCEPT !.errors = ErrorsAfter(@)]

ErrStats(e, readable) ==
    IF w[e].mode = "exif" /\ readable THEN stats
    ELSE CallerErrStats(stats)

\* process_single_file on Ok: exif_count or fallback_count += 1
OkJob(e) == Returned(w[e], w[e].mode)

\* an Ok arm that counts the file under both date sources
BothCounted(e) ==
    [stats EXCEPT !.exif_count = @ + 1, !.fallback_count = @ + 1]

OkStats(e) ==
    IF w[e].mode = "exif" THEN [stats EXCEPT !.exif_count = @ + 1]
    ELSE [stats EXCEPT !.fallback_count = @ + 1]

\* the step's Err leaves the job (the fallback's fs::metadata is not failed
\* on top of the error that led to it)
Fails(e) ==
    /\ w' = [w EXCEPT ![e] = ErrJob(e, TRUE)]
    /\ stats' = ErrStats(e, TRUE)

Succeeds(e) ==
    /\ w' = [w EXCEPT ![e] = OkJob(e)]
    /\ stats' = OkStats(e)

\* the "already in the correct directory" test of process_with_exiftool
AlreadyInPlace(source, dest_dir) == source.dir = dest_dir

\* a process_single_file that leaves processed alone
ProcessedUncounted(n) == n

\* stats.processed.fetch_add(1)
ProcessedAfter(n) == n + 1

\* a skip that is counted in skipped only
SkippedOnly(s) == [s EXCEPT !.skipped = @ + 1]

\* the skip of process_with_exiftool, skipped += 1 and Ok(()), and the Ok arm
\* of process_single_file that follows it, exif_count += 1
SkippedStats(s) == [s EXCEPT !.skipped = @ + 1, !.exif_count = @ + 1]

\* process_single_file up to the first probe of the destination: the check,
\* processed += 1, get_exiftool_path, extract_datetime and the skip test of
\* process_with_exiftool; without a tool or a date, process_file_with_fallback
EnterSingleFile(e) ==
    /\ w[e].pc = "entered"
    /\ LET date == extract_datetime(entries[e].tags)
           started == [stats EXCEPT !.processed = ProcessedAfter(@)]
       IN
       IF SingleFileCheckStops(terminate_flag)
       THEN /\ w' = [w EXCEPT ![e] = Returned(@, "abandoned")]
            /\ UNCHANGED <<stats, faults>>
       ELSE IF exiftool_found /\ date # NoDate
       THEN /\ IF AlreadyInPlace(entries[e].path, DestDir(date))
               THEN /\ w' = [w EXCEPT ![e] = Returned(@, "skipped")]
                    /\ stats' = SkippedStats(started)
               ELSE /\ w' = [w EXCEPT ![e] = Planning(@, "exif", DestDir(date))]
                    /\ stats' = started
            /\ UNCHANGED faults
       ELSE \E readable \in IoResults :
                /\ w' = [w EXCEPT ![e] = FallbackJob(e, @, readable)]
                /\ stats' = IF readable THEN started
                            ELSE CallerErrStats(started)
                /\ Counted(readable)
    /\ UNCHANGED <<dry_run, config, fs, dirs, terminate_flag, phase, run, dry_out, dry_order, order>>

(* ------------------------ destination planner -------------------------- *)

\* Path::exists of get_unique_file_path
ProbeFree(f, p) == ~PathExists(f, p)

\* a probe loop that steps its counter by two
SkipCounter(counter) == counter + 2

NextCounter(counter) == counter + 1

\* the `if !dry_run` in front of create_dir_all and the move, in
\* process_with_exiftool and in process_file_with_fallback
ExifPathActs(dry) == ~dry

\* a fallback path that ignores config.dry_run
FallbackAlwaysActs(dry) == TRUE

\* `if !config.dry_run` in process_file_with_fallback
FallbackPathActs(dry) == ~dry

Acts(mode, dry) ==
    IF mode = "exif" THEN ExifPathActs(dry) ELSE FallbackPathActs(dry)

\* get_unique_file_path, one existence probe per step: the original path,
\* then stem_1, stem_2, ...; the free path is printed ("Moving: a -> b") and,
\* in a dry run, the job returns Ok
ProbeDestination(e) ==
    /\ w[e].pc = "probe"
    /\ LET dest_path == JoinFileName(w[e].dest_dir, entries[e].path)
           new_path == Candidate(dest_path, w[e].counter)
           line == [fallback |-> w[e].mode = "fallback", dest |-> new_path]
       IN
       IF ProbeFree(fs, new_path)
       THEN IF Acts(w[e].mode, dry_run)
            THEN /\ w' = [w EXCEPT ![e].pc = "rename",
                                   ![e].unique_dest_path = new_path,
                                   ![e].out = Append(@, line)]
                 /\ UNCHANGED stats
            ELSE /\ w' = [w EXCEPT ![e] =
                            [OkJob(e) EXCEPT !.unique_dest_path = new_path,
                                             !.out = Append(@, line)]]
                 /\ stats' = OkStats(e)
       ELSE /\ w' = [w EXCEPT ![e].counter = NextCounter(@)]
            /\ UNCHANGED stats
    /\ UNCHANGED <<dry_run, config, fs, dirs, terminate_flag, phase, run, dry_out, dry_order, order, faults>>

(* ------------------------------ relocator ------------------------------ *)

\* what fs::rename returns: Ok, the error of a destination on another
\* filesystem (as a raw code or as one of two kinds), or another I/O error
RenameResults ==
    {"ok", "EXDEV", "PermissionDenied", "InvalidInput"}
        \cup {r \in {"Other"} : faults < MaxFaults}

\* raw_os_error() == Some(18), or kind InvalidInput / PermissionDenied
FallsBackToCopy(err) == err \in {"EXDEV", "PermissionDenied", "InvalidInput"}

\* rename(2): the destination, if there is one, is replaced
Renamed(f, source, dest) == WriteFile(RemoveFile(f, source), dest, f[source])

\* fs::create_dir_all(&dest_dir)?, then move_file_cross_platform: fs::rename
\* and what its error selects
RenameFile(e) ==
    /\ w[e].pc = "rename"
    /\ LET source == entries[e].path
           dest == w[e].unique_dest_path
       IN
       \/ /\ faults < MaxFaults
          /\ Counted(FALSE)
          /\ Fails(e)
          /\ UNCHANGED <<fs, dirs>>
       \/ /\ dirs' = dirs \cup {w[e].dest_dir}
          /\ \E r \in RenameResults :
                /\ IF r = "ok"
                   THEN /\ fs' = Renamed(fs, source, dest)
                        /\ Succeeds(e)
                   ELSE IF FallsBackToCopy(r)
                   THEN /\ w' = [w EXCEPT ![e].pc = "copy"]
                        /\ UNCHANGED <<fs, stats>>
                   ELSE /\ Fails(e)
                        /\ UNCHANGED fs
                /\ Counted(r # "Other")
    /\ UNCHANGED <<dry_run, config, terminate_flag, phase, run, dry_out, dry_order, order>>

\* what fs::copy does: writes the whole file; returns Ok with fewer bytes
\* written than the source holds; fails before it creates the destination;
\* fails after it wrote a part
CopyResults ==
    {"ok", "short"} \cup {r \in {"fail_clean", "fail_partial"} : faults < MaxFaults}

Partial(c) == [c EXCEPT !.len = @ - 1]

\* copy_and_delete: fs::copy(source, dest)?
CopyFile(e) ==
    /\ w[e].pc = "copy"
    /\ LET source == entries[e].path
           dest == w[e].unique_dest_path
       IN
       \E r \in CopyResults :
          /\ IF r = "fail_clean"
             THEN /\ Fails(e)
                  /\ UNCHANGED fs
             ELSE IF r = "fail_partial"
             THEN /\ fs' = WriteFile(fs, dest, Partial(fs[source]))
                  /\ Fails(e)
             ELSE /\ fs' = WriteFile(fs, dest,
                              IF r = "ok" THEN fs[source] ELSE Partial(fs[source]))
                  /\ w' = [w EXCEPT ![e].pc = "verify"]
                  /\ UNCHANGED stats
          /\ Counted(r \in {"ok", "short"})
    /\ UNCHANGED <<dry_run, config, dirs, terminate_flag, phase, run, dry_out, dry_order, order>>

\* source_metadata.len() != dest_metadata.len()
SizeMismatch(f, source, dest) == f[source].len # f[dest].len

\* copy_and_delete: fs::metadata(source)?, fs::metadata(dest)? and the
\* comparison of the two lengths; a destination that another job removed in
\* the meantime is an error of the second call
VerifyCopy(e) ==
    /\ w[e].pc = "verify"
    /\ LET source == entries[e].path
           dest == w[e].unique_dest_path
       IN
       IF ~PathExists(fs, dest)
       THEN /\ Fails(e)
            /\ UNCHANGED faults
       ELSE \E ok \in IoResults :
               /\ IF ok
                  THEN /\ w' = [w EXCEPT ![e].pc =
                                   IF SizeMismatch(fs, source, dest) THEN "cleanup"
                                   ELSE "unlink"]
                       /\ UNCHANGED stats
                  ELSE Fails(e)
               /\ Counted(ok)
    /\ UNCHANGED <<dry_run, config, fs, dirs, terminate_flag, phase, run, dry_out, dry_order, order>>

\* copy_and_delete: let _ = fs::remove_file(dest); return Err(size mismatch)
CleanupCopy(e) ==
    /\ w[e].pc = "cleanup"
    /\ \E ok \in IoResults :
          /\ fs' = IF ok THEN RemoveFile(fs, w[e].unique_dest_path) ELSE fs
          /\ Counted(ok)
    /\ Fails(e)
    /\ UNCHANGED <<dry_run, config, dirs, terminate_flag, phase, run, dry_out, dry_order, order>>

\* copy_and_delete: fs::remove_file(source)?; Ok(())
DeleteSource(e) ==
    /\ w[e].pc = "unlink"
    /\ \E ok \in IoResults :
          /\ IF ok
             THEN /\ fs' = RemoveFile(fs, entries[e].path)
                  /\ Succeeds(e)
             ELSE /\ Fails(e)
                  /\ UNCHANGED fs
          /\ Counted(ok)
    /\ UNCHANGED <<dry_run, config, dirs, terminate_flag, phase, run, dry_out, dry_order, order>>

(* ------------------------- the specifications -------------------------- *)

Job(e) ==
    \/ StartEntry(e)
    \/ EnterSingleFile(e)
    \/ ProbeDestination(e)
    \/ RenameFile(e)
    \/ CopyFile(e)
    \/ VerifyCopy(e)
    \/ CleanupCopy(e)
    \/ DeleteSource(e)

Next ==
    \/ CountMediaFiles
    \/ CollectEntries
    \/ Interrupt
    \/ Join
    \/ \E e \in Entries : StartEntry(e)
    \/ \E e \in Entries : EnterSingleFile(e)
    \/ \E e \in Entries : ProbeDestination(e)
    \/ \E e \in Entries : RenameFile(e)
    \/ \E e \in Entries : CopyFile(e)
    \/ \E e \in Entries : VerifyCopy(e)
    \/ \E e \in Entries : CleanupCopy(e)
    \/ \E e \in Entries : DeleteSource(e)

Spec == Init /\ [][Next]_vars

\* the user runs the tool again, without --dry-run, after a dry run that
\* went through undisturbed: main starts over on the filesystem the dry run
\* left
RunAgain ==
    /\ phase = "Done"
    /\ run = 1
    /\ dry_run
    /\ ~terminate_flag
    /\ faults = 0
    /\ dry_run' = FALSE
    /\ run' = 2
    /\ dry_out' = [e \in Entries |-> w[e].out]
    /\ dry_order' = order
    /\ order' = <<>>
    /\ terminate_flag' = FALSE
    /\ stats' = Stats_new
    /\ phase' = "Idle"
    /\ w' = [e \in Entries |-> QueuedJob]
    /\ UNCHANGED <<config, fs, dirs, faults>>

\* runs on a pool of one thread: the entries are processed one after the
\* other, in any order
InitSeq == InitCommon /\ threads = 1 /\ single_file = FALSE

NextSeq ==
    \/ CountMediaFiles
    \/ CollectEntries
    \/ Interrupt
    \/ Join
    \/ RunAgain
    \/ \E e \in Entries : StartEntry(e)
    \/ \E e \in Entries : EnterSingleFile(e)
    \/ \E e \in Entries : ProbeDestination(e)
    \/ \E e \in Entries : RenameFile(e)
    \/ \E e \in Entries : CopyFile(e)
    \/ \E e \in Entries : VerifyCopy(e)
    \/ \E e \in Entries : CleanupCopy(e)
    \/ \E e \in Entries : DeleteSource(e)

SpecSeq == InitSeq /\ [][NextSeq]_vars

\* process_path on a file: total = 1 and process_single_file is called on
\* the main thread, without the closure's check and without is_media_file
StoreTotalOne ==
    /\ phase = "Idle"
    /\ single_file
    /\ stats' = [stats EXCEPT !.total = 1]
    /\ w' = [w EXCEPT ![1].pc = "entered"]
    /\ order' = <<1>>
    /\ phase' = "Single"
    /\ UNCHANGED <<dry_run, config, fs, dirs, terminate_flag, run, dry_out, dry_order, faults>>

\* process_path(...)? in main: on Ok main prints the summary; on Err main
\* returns the error, before the summary
ReturnSingle ==
    /\ phase = "Single"
    /\ AllJobsReturned
    /\ phase' = IF w[1].result = "error" THEN "Failed" ELSE "Done"
    /\ UNCHANGED <<dry_run, config, fs, dirs, terminate_flag, stats, w, run, dry_out, dry_order, order, faults>>

\* a run on one file
InitSingle ==
    /\ InitCommon
    /\ threads = 1
    /\ single_file = TRUE
    /\ Cardinality(Entries) = 1

\* the steps of the main thread in a run on one file
MainSingle ==
    \/ StoreTotalOne
    \/ ReturnSingle
    \/ EnterSingleFile(1)
    \/ ProbeDestination(1)
    \/ RenameFile(1)
    \/ CopyFile(1)
    \/ VerifyCopy(1)
    \/ CleanupCopy(1)
    \/ DeleteSource(1)

NextSingle ==
    \/ Interrupt
    \/ StoreTotalOne
    \/ ReturnSingle
    \/ EnterSingleFile(1)
    \/ ProbeDestination(1)
    \/ RenameFile(1)
    \/ CopyFile(1)
    \/ VerifyCopy(1)
    \/ CleanupCopy(1)
    \/ DeleteSource(1)

\* the main thread runs on as long as it has a step to take
SpecSingle == InitSingle /\ [][NextSingle]_vars /\ WF_vars(MainSingle)

\* what the tool can print for one field
TagValues == {TagFail, TagEmpty, TagBad, TagDate(Date1), TagDate(Date2)}

\* runs over one file for which the tool prints any combination of outputs
\* for the four fields
InitTags ==
    /\ dry_run \in BOOLEAN
    /\ exiftool_found = TRUE
    /\ single_file = FALSE
    /\ threads = 1
    /\ \E t \in [1..4 -> TagValues] :
          entries = <<[path |-> SourceSlots[2], tags |-> t, mtime |-> Date1]>>
    /\ fs = InitialFs(entries, 0)
    /\ dirs = {p.dir : p \in DOMAIN fs} \cup {inbox}
    /\ terminate_flag = FALSE
    /\ stats = Stats_new
    /\ phase = "Idle"
    /\ w = [e \in Entries |-> QueuedJob]
    /\ run = 1
    /\ dry_out = [e \in Entries |-> <<>>]
    /\ dry_order = <<>>
    /\ order = <<>>
    /\ faults = 0

SpecTags == InitTags /\ [][Next]_vars


(* ------------------------------ the claims ----------------------------- *)

Source(e) == entries[e].path
MoveSteps == {"rename", "copy", "verify", "cleanup", "unlink"}
CopySteps == {"copy", "verify", "cleanup", "unlink"}
InFlight(e) == w[e].pc \in MoveSteps

\* entry e's job leaves create_dir_all / move_file_cross_platform in this step
MoveReturns(e) == w[e].pc \in MoveSteps /\ w'[e].pc \notin MoveSteps

\* C1. Move law: when move_file_cross_platform returns, whatever each
\* filesystem call did, either the source is gone and the destination exists
\* with the original size, or the source is still there unchanged and the
\* destination does not exist.
C1_MoveLaw ==
    [][\A e \in Entries :
          MoveReturns(e) =>
             LET dest == w[e].unique_dest_path IN
             \/ /\ ~PathExists(fs', Source(e))
                /\ PathExists(fs', dest)
                /\ fs'[dest].len = FileSize
             \/ /\ PathExists(fs', Source(e))
                /\ fs'[Source(e)] = Content(e)
                /\ ~PathExists(fs', dest)]_vars

Moved(e) == w[e].pc = "done" /\ w[e].result \in {"exif", "fallback"} /\ w[e].out # <<>>
LastDest(e) == w[e].out[Len(w[e].out)].dest

\* C2. In a concurrent run, two candidates that map to the same folder and
\* file name are both preserved: at Done they are at distinct destination
\* paths and the file of every media entry still exists, whole, somewhere.
C2_SameTargetBothPreserved ==
    (phase = "Done" /\ ~dry_run) =>
        /\ \A e1, e2 \in Entries :
              (e1 # e2 /\ Moved(e1) /\ Moved(e2)) => LastDest(e1) # LastDest(e2)
        /\ \A e \in MediaEntries : \E p \in DOMAIN fs : fs[p] = Content(e)

\* C3. In copy_and_delete the source is deleted only by the step that follows
\* a comparison that found the sizes equal; when the sizes differ, the
\* destination file is removed, the source is untouched and the call fails.
C3_VerifyThenDelete ==
    [][\A e \in Entries :
          /\ (w[e].pc \in CopySteps /\ PathExists(fs, Source(e))
                /\ ~PathExists(fs', Source(e)))
                => (w[e].pc = "unlink" /\ ~SizeMismatch(fs, Source(e), w[e].unique_dest_path))
          /\ (w[e].pc = "cleanup" /\ w'[e].pc # "cleanup")
                => /\ ~PathExists(fs', w[e].unique_dest_path)
                   /\ PathExists(fs', Source(e))
                   /\ fs'[Source(e)] = Content(e)
                   /\ w'[e].result \notin {"exif", "fallback"}]_vars

NotStarted(e) == w[e].pc \in {"queued", "entered"}
Started == {e \in Entries : w[e].result \in {"skipped", "exif", "fallback", "error"}
                              \/ w[e].pc \notin {"queued", "entered", "done"}}

\* C4. Cancellation: once the flag is set, a candidate whose job has not
\* passed its check is never started: its job returns without a counter
\* update or a filesystem change, and its file stays where it was.  A move in
\* flight is not abandoned, and Done is reached only when every job has
\* returned, so no move is cut short: unless a filesystem call itself failed,
\* no file at Done is incomplete or present at both its source and its
\* destination.
C4_Cancellation ==
    [][/\ \A e \in Entries :
            /\ (terminate_flag /\ NotStarted(e))
                  => \/ w'[e] = w[e]
                     \/ /\ w'[e].result = "abandoned"
                        /\ UNCHANGED <<stats, fs, dirs>>
                     \/ /\ w'[e].result = "unwalked"
                        /\ UNCHANGED <<fs, dirs>>
            /\ InFlight(e) => w'[e].result # "abandoned"
       /\ stats'.processed = Cardinality(Started')
       /\ phase' = "Done" =>
             /\ \A e \in Entries :
                   /\ w'[e].pc = "done"
                   /\ w'[e].result = "abandoned"
                         => (PathExists(fs', Source(e)) /\ fs'[Source(e)] = Content(e))
             /\ faults' = 0 =>
                   /\ \A p \in DOMAIN fs' : fs'[p].len = FileSize
                   /\ \A e \in Entries :
                         Cardinality({p \in DOMAIN fs' : fs'[p].id = e}) <= 1]_vars

\* a move is in flight and another candidate has not passed its check when
\* the flag is set
C4_Witness ==
    /\ terminate_flag
    /\ \E e1, e2 \in Entries : w[e1].pc \in CopySteps /\ w[e2].pc = "entered"

\* the folder the planner gives entry e: from the tool's date when there is
\* one, else from the modification time
PlannedDir(e) ==
    IF exiftool_found /\ extract_datetime(entries[e].tags) # NoDate
    THEN DestDir(extract_datetime(entries[e].tags))
    ELSE DestDir(entries[e].mtime)

Organized == \A e \in Entries : Source(e).dir = PlannedDir(e)

\* C5. Idempotence: on a tree where every file is already in its planned
\* folder, whether the date is the tool's or the modification time, and
\* while no filesystem call fails, no step changes the filesystem and at Done
\* every file is Skipped and skipped == total.
C5_Idempotence ==
    [][(Organized /\ faults' = 0) =>
          /\ fs' = fs
          /\ (phase' = "Done" /\ ~terminate_flag') =>
                /\ \A e \in Entries : w'[e].result = "skipped"
                /\ stats'.skipped = stats'.total]_vars


\* C6. With dry_run set no step creates a folder or renames, copies or
\* deletes a file, on the metadata path and on the fallback path alike: the
\* filesystem at Done is the filesystem at the start.
C6_DryRunTouchesNothing ==
    [][dry_run => (fs' = fs /\ dirs' = dirs)]_vars

\* a dry run is over that planned one file from the tool's date and another
\* from its modification time
C6_Witness ==
    /\ dry_run
    /\ phase = "Done"
    /\ \E e1, e2 \in Entries :
          /\ w[e1].result = "exif" /\ w[e1].out # <<>>
          /\ w[e2].result = "fallback" /\ w[e2].out # <<>>

\* C7. On the same initial filesystem and with the same processing order
\* (a one-thread pool taking the entries in the same order in both runs, with
\* no interrupt and no I/O failure), the destination a dry run prints for a
\* candidate is the destination the run without --dry-run gives it, also when
\* several candidates share a target folder and file name.
C7_DryRunPlanIsRealPlan ==
    (/\ run = 2
     /\ phase = "Done"
     /\ ~terminate_flag
     /\ faults = 0
     /\ order = dry_order) =>
        \A e \in Entries :
            (dry_out[e] # <<>> /\ w[e].out # <<>>)
                => dry_out[e][1].dest = w[e].out[1].dest

\* the suffix-free destination of entry e's current plan
DestPath(e) == JoinFileName(w[e].dest_dir, Source(e))

\* the files that were at a destination before the run and are still there
PreFiles == {p \in DOMAIN fs : fs[p] = OtherContent}

\* C8. Destination-collision law, in a run that processes the candidates one
\* after the other: get_unique_file_path returns a path that does not exist
\* when it is probed, the original path if that is free and otherwise
\* stem_k.ext for the smallest k >= 1 that is free; no step replaces a file
\* that exists; and with foo.jpg present, two files named foo.jpg placed in
\* the folder end as foo_1.jpg and foo_2.jpg.
C8_CollisionLaw ==
    [][/\ \A e \in Entries :
            (w[e].pc = "probe" /\ w'[e].pc # "probe") =>
               /\ w'[e].unique_dest_path = Candidate(DestPath(e), w[e].counter)
               /\ ~PathExists(fs, w'[e].unique_dest_path)
               /\ \A k \in 0..(w[e].counter - 1) :
                     PathExists(fs, Candidate(DestPath(e), k))
       /\ \A p \in DOMAIN fs : PathExists(fs', p) => fs'[p] = fs[p]
       /\ (/\ phase' = "Done"
           /\ ~dry_run
           /\ PreFiles' = {PrePath(0)}
           /\ Cardinality(Entries) = 2
           /\ \A e \in Entries :
                 /\ Moved(e)'
                 /\ Len(w'[e].out) = 1
                 /\ w'[e].dest_dir = DestDir(Date1))
             => \A i \in 1..2 :
                   /\ w'[order'[i]].unique_dest_path = PrePath(i)
                   /\ fs'[PrePath(i)] = Content(order'[i])]_vars

\* foo.jpg was in the folder and the run has placed two files named foo.jpg
\* there
C8_Witness ==
    /\ phase = "Done"
    /\ ~dry_run
    /\ PreFiles = {PrePath(0)}
    /\ Cardinality(Entries) = 2
    /\ \A e \in Entries :
          Moved(e) /\ Len(w[e].out) = 1 /\ w[e].dest_dir = DestDir(Date1)

Failed == {e \in Entries : w[e].result = "error"}
Processed == {e \in Entries : w[e].result \in {"skipped", "exif", "fallback", "error"}}

\* C9. In directory mode every candidate whose processing fails (its
\* process_single_file returns Err) is counted in errors exactly once, and the
\* failure does not abort the run: the other jobs can still step, Done is
\* reached only when every job has returned, and then every media file the
\* walk gave and cancellation did not stop has been processed.
C9_ErrorsCountedRunGoesOn ==
    /\ stats.errors = Cardinality(Failed)
    /\ phase = "Dispatching" =>
          \/ AllJobsReturned
          \/ \E e \in Entries : ENABLED Job(e)
    /\ phase = "Done" =>
          \A e \in Entries :
             /\ w[e].pc = "done"
             /\ (is_media_file(Source(e)) /\ w[e].result # "unwalked") =>
                   (e \in Processed \/ (w[e].result = "abandoned" /\ terminate_flag))

\* one candidate failed and, with no interrupt, another was processed after
\* that failure was counted
C9_Witness ==
    /\ phase = "Done"
    /\ ~terminate_flag
    /\ \E e1, e2 \in Entries :
          w[e1].result = "error" /\ w[e2].result \in {"exif", "fallback"}

DateResolved(e) == exiftool_found /\ extract_datetime(entries[e].tags) # NoDate

\* C10. The modification-time fallback is used, and counted in
\* fallback_count, only for a candidate whose date the tool did not give; a
\* candidate whose date was resolved and whose create_dir_all, move or copy
\* verification then fails is recorded as an error, with no second plan.
C10_NoFallbackAfterResolvedDate ==
    \A e \in Entries :
        DateResolved(e) =>
            /\ w[e].mode # "fallback"
            /\ Len(w[e].out) <= 1
            /\ (w[e].pc = "done" /\ w[e].result \notin {"skipped", "exif", "abandoned"})
                  => w[e].result = "error"

\* C11. In directory mode the total that the workers read while dispatching
\* is the number of regular files of the source tree that is_media_file
\* accepts (here: when both walks could read every entry), and it is fixed
\* before the first worker starts.
C11_TotalIsMediaCount ==
    (phase \in {"Dispatching", "Done"} /\ faults = 0)
        => stats.total = Cardinality(MediaEntries)

\* C12. In every reachable state, under every interleaving of the workers,
\* exif_count + fallback_count <= processed.
C12_OutcomesWithinProcessed ==
    stats.exif_count + stats.fallback_count <= stats.processed

\* two workers are past processed += 1, one has counted its file as
\* metadata-derived and the other is still moving its file
C12_Witness ==
    /\ stats.processed = 2
    /\ stats.exif_count = 1
    /\ \E e \in Entries : w[e].pc \in MoveSteps /\ w[e].mode = "fallback"

\* C13. When the metadata tool cannot be located, every candidate whose
\* modification time can be read is planned from its modification time and,
\* once placed, counted in fallback_count; exif_count stays 0; and a
\* candidate fails only when a filesystem call of its own fails (the read of
\* its metadata, or a step of create_dir_all and the move), never for the
\* missing tool.
C13_ToolMissingFallsBack ==
    [][~exiftool_found =>
          /\ stats'.exif_count = 0
          /\ stats'.skipped = 0
          /\ \A e \in Entries :
                /\ (w[e].pc = "entered" /\ w'[e].pc # "entered") =>
                      \/ (terminate_flag /\ w'[e].result = "abandoned")
                      \/ /\ faults' = faults
                         /\ w'[e].pc = "probe"
                         /\ w'[e].mode = "fallback"
                         /\ w'[e].dest_dir = DestDir(entries[e].mtime)
                      \/ (faults' > faults /\ w'[e].result = "error")
                /\ (w'[e].result = "error" /\ w[e].result # "error")
                      => (w[e].pc \in MoveSteps \/ faults' > faults)
                /\ (w[e].pc \in MoveSteps \cup {"probe"} /\ w'[e].pc = "done"
                      /\ w'[e].result # "error")
                      => /\ w'[e].result = "fallback"
                         /\ stats'.fallback_count = stats.fallback_count + 1
          /\ stats'.fallback_count
                = Cardinality({e \in Entries : w'[e].result = "fallback"})]_vars

\* a run without the tool is over and both its candidates were placed from
\* their modification times
C13_Witness ==
    /\ ~exiftool_found
    /\ ~dry_run
    /\ phase = "Done"
    /\ stats.fallback_count = 2
    /\ \A e \in Entries : w[e].result = "fallback"

\* C13 as the specification words it: without the tool, every candidate
\* whose modification time could be read (it was planned from it) is counted
\* in fallback_count, here in runs that no interrupt stopped.
C13_EveryReadableCounted ==
    (~exiftool_found /\ phase = "Done" /\ ~terminate_flag) =>
        /\ stats.exif_count = 0
        /\ \A e \in MediaEntries :
              w[e].mode = "fallback" => w[e].result = "fallback"
        /\ stats.fallback_count
              = Cardinality({e \in MediaEntries : w[e].mode = "fallback"})

\* the first field of tags that holds a date, 0 when none does
FirstDated(tags) ==
    LET I == {i \in 1..Len(tags) : tags[i].kind = "date"}
    IN IF I = {} THEN 0 ELSE CHOOSE i \in I : \A j \in I : i <= j

\* C14. extract_datetime asks for DateTimeOriginal, CreateDate, DateTime and
\* FileModifyDate in this order and returns the date of the first field
\* whose output parses: a failed, empty or unparsable field only leads to the
\* next one.  A date that only FileModifyDate holds makes the candidate
\* metadata-derived (planned from that date, counted in exif_count), and only
\* when no field holds a date does the candidate go to the fallback.
C14_FirstParseableField ==
    [][\A e \in Entries :
          LET tags == entries[e].tags
              k == FirstDated(tags)
          IN
          /\ extract_datetime(tags) = IF k = 0 THEN NoDate ELSE tags[k].date
          /\ (w[e].pc = "entered" /\ w'[e].pc # "entered"
                /\ w'[e].result # "abandoned") =>
                IF k = 0
                THEN w'[e].mode = "fallback" \/ w'[e].result = "error"
                ELSE \/ /\ w'[e].mode = "exif"
                        /\ w'[e].pc = "probe"
                        /\ w'[e].dest_dir = DestDir(tags[k].date)
                     \/ /\ w'[e].result = "skipped"
                        /\ Source(e).dir = DestDir(tags[k].date)
          /\ (w[e].pc # "done" /\ w'[e].result \in {"exif", "skipped"}) =>
                /\ k # 0
                /\ stats'.exif_count = stats.exif_count + 1
                /\ stats'.fallback_count = stats.fallback_count]_vars

\* the first three fields failed, were empty or did not parse, the date of
\* FileModifyDate was used and the file was placed and counted as
\* metadata-derived
C14_Witness ==
    \E e \in Entries :
        /\ entries[e].tags[1].kind = "fail"
        /\ entries[e].tags[2].kind = "empty"
        /\ entries[e].tags[3].kind = "bad"
        /\ entries[e].tags[4] = TagDate(Date1)
        /\ w[e].result = "exif"
        /\ ~dry_run
        /\ stats.exif_count = 1
        /\ PathExists(fs, MkPath(DestDir(Date1), <<"foo">>, "jpg"))

\* C15. Every run eventually reaches Done, where main prints the summary,
\* whether it completes normally, is interrupted or has a failing file; Done
\* is reached only after every worker has finished or abandoned, and it is
\* reached once.  Here for a run on a single file.
C15_ReachesDoneOnce ==
    /\ <>(phase = "Done")
    /\ [](phase = "Done" => AllJobsReturned)
    /\ [][phase = "Done" => phase' = "Done"]_vars

\* C16. The flag is checked a second time before a candidate is finalized,
\* after date resolution and before create_dir_all and the move: a worker
\* that finds the flag set when its candidate's date is resolved and its
\* move has not begun abandons the candidate and starts no move.
C16_CheckBeforeFinalizing ==
    [][\A e \in Entries :
          (terminate_flag /\ w[e].pc \in {"entered", "probe"})
              => w'[e].pc \notin MoveSteps]_vars

\* the candidates whose processing has finished
Finished == {e \in Entries : w[e].pc = "done" /\ e \in Processed}

\* C17. The n of the [n/total] progress line, the processed counter, reflects
\* completed work: it never exceeds the number of candidates whose
\* processing has finished, and it never decreases.
C17_ProcessedIsCompletedWork ==
    [][/\ stats'.processed <= Cardinality(Finished')
       /\ stats'.processed >= stats.processed]_vars

\* the candidates that are already in their planned folder
InPlace == {e \in MediaEntries : Source(e).dir = PlannedDir(e)}

\* C18. For every candidate whose parent directory is its computed
\* destination directory, whether the date came from the tool or from the
\* modification time, no directory is created and no file renamed, copied or
\* deleted (its job never reaches create_dir_all or the move, and its file
\* stays as it is), and when its job returns Ok it was recorded as Skipped,
\* with skipped incremented once.
C18_InPlaceIsSkipped ==
    [][\A e \in InPlace :
          /\ w'[e].pc \notin MoveSteps
          /\ PathExists(fs', Source(e)) /\ fs'[Source(e)] = Content(e)
          /\ (w[e].pc # "done" /\ w'[e].pc = "done"
                /\ w'[e].result \notin {"abandoned", "error", "unwalked"})
                => /\ w'[e].result = "skipped"
                   /\ stats'.skipped = stats.skipped + 1]_vars

\* C19. In directory mode a failure to read one entry of the tree, during the
\* counting traversal or the collecting traversal, does not abort the run:
\* main does not return an error, the run goes on to its summary.
C19_WalkErrorDoesNotAbort ==
    ~single_file => phase # "Failed"

\* C20. When a directory run has reached Done, every candidate that entered
\* process_single_file was counted under exactly one outcome:
\* processed = exif_count + fallback_count + errors.
C20_ProcessedIsSumOfOutcomes ==
    (phase = "Done" /\ ~single_file)
        => stats.processed
             = stats.exif_count + stats.fallback_count + stats.errors

\* a finished directory run with one failed and one organized candidate
C20_Witness ==
    /\ phase = "Done" /\ ~single_file
    /\ stats.processed = 2 /\ stats.errors = 1
    /\ stats.exif_count + stats.fallback_count = 1
    /\ \E e \in Entries : w[e].result = "error"

\* the candidates recorded as Skipped, and those the summary reports as
\* organized from metadata
RecordedSkipped == {e \in Entries : w[e].result = "skipped"}
MetadataDerived == {e \in Entries : w[e].result \in {"exif", "skipped"}}

\* C21. Every candidate recorded as Skipped is also counted as
\* metadata-derived: when the run is Done, skipped is the number of Skipped
\* candidates, exif_count is the number of candidates that were moved by a
\* metadata date or Skipped, so skipped <= exif_count, and each Skipped
\* candidate counted there was not moved.
C21_SkippedWithinMetadataCount ==
    phase = "Done" =>
        /\ stats.skipped = Cardinality(RecordedSkipped)
        /\ stats.exif_count = Cardinality(MetadataDerived)
        /\ stats.skipped <= stats.exif_count
        /\ \A e \in RecordedSkipped :
              PathExists(fs, Source(e)) /\ fs[Source(e)] = Content(e)

\* a finished run whose metadata-derived count of 2 holds one moved and one
\* skipped file
C21_Witness ==
    /\ phase = "Done" /\ ~dry_run
    /\ stats.skipped = 1 /\ stats.exif_count = 2
    /\ \E e1, e2 \in Entries :
          /\ w[e1].result = "skipped" /\ PathExists(fs, Source(e1))
          /\ w[e2].result = "exif" /\ Moved(e2)

====
